---- MODULE Spec2Model ----
(***************************************************************************)
(* Model of the project-tracker server: the request handlers of            *)
(* controllers/projectController.ts over the relational store (Project,    *)
(* Assignment, Contact, ProjectFile) and the object storage.               *)
(*                                                                         *)
(* Strings are sequences of one-character strings.  A nullable column or   *)
(* a nullable parsed value is <<>> (null) or <<v>>.  A JSON value of a     *)
(* request body is a tagged record: [str |-> s], [num |-> n], [nul |-> T]. *)
(* A key that is absent from a body (undefined) is absent from the record. *)
(***************************************************************************)
EXTENDS Integers, Sequences, FiniteSets, TLC

VARIABLES db, tx, seq, now, pc, req, res, s3, auth, peer, before

vars == <<db, tx, seq, now, pc, req, res, s3, auth, peer, before>>

\* peer is the answer to the last request of a second client, handled while
\* the first client's request may be in flight; before is the store as the
\* open transaction found it.
\* ------------------------------------------------------------------ bounds
\* Requests handled in one behaviour (the clock stops there).
MaxOps == 2

\* Writes of the second client in one behaviour, and requests of the first
\* client next to a second one.
MaxPeer == 1
MaxFirst == 1

\* ------------------------------------------------------------ value helpers
NULL == <<>>
Some(v) == <<v>>
IsNull(o) == o = <<>>
Val(o) == o[1]

JStr(s) == [str |-> s]
JNum(n) == [num |-> n]
JNull == [nul |-> TRUE]
IsJStr(j) == "str" \in DOMAIN j
IsJNum(j) == "num" \in DOMAIN j
IsJNull(j) == "nul" \in DOMAIN j

Max(a, b) == IF a >= b THEN a ELSE b
Min(a, b) == IF a <= b THEN a ELSE b

Digits == {"0", "1", "2", "3", "4", "5", "6", "7", "8", "9"}

DigitVal(c) ==
  CASE c = "0" -> 0 [] c = "1" -> 1 [] c = "2" -> 2 [] c = "3" -> 3
    [] c = "4" -> 4 [] c = "5" -> 5 [] c = "6" -> 6 [] c = "7" -> 7
    [] c = "8" -> 8 [] c = "9" -> 9

DigitChar(d) ==
  CASE d = 0 -> "0" [] d = 1 -> "1" [] d = 2 -> "2" [] d = 3 -> "3"
    [] d = 4 -> "4" [] d = 5 -> "5" [] d = 6 -> "6" [] d = 7 -> "7"
    [] d = 8 -> "8" [] d = 9 -> "9"

\* s.replace(/[^0-9]/g, "")
StripNonDigits(s) == SelectSeq(s, LAMBDA c : c \in Digits)

\* Number(s) for a string s of decimal digits; Number("") is 0.
RECURSIVE NumberOfDigits(_)
NumberOfDigits(s) ==
  IF s = <<>> THEN 0
  ELSE 10 * NumberOfDigits(SubSeq(s, 1, Len(s) - 1)) + DigitVal(s[Len(s)])

\* String(n) for a non-negative integer n.
RECURSIVE StringOfNat(_)
StringOfNat(n) ==
  IF n < 10 THEN <<DigitChar(n)>>
  ELSE Append(StringOfNat(n \div 10), DigitChar(n % 10))

\* Math.round(num / den) for num >= 0, den > 0: halves round up.
MathRound(num, den) == (2 * num + den) \div (2 * den)

\* s.trim()
RECURSIVE TrimLeft(_)
TrimLeft(s) == IF s # <<>> /\ s[1] = " " THEN TrimLeft(Tail(s)) ELSE s
RECURSIVE TrimRight(_)
TrimRight(s) ==
  IF s # <<>> /\ s[Len(s)] = " " THEN TrimRight(SubSeq(s, 1, Len(s) - 1)) ELSE s
Trim(s) == TrimRight(TrimLeft(s))

\* ------------------------------------------------------------------ schema
ListKind == {"NEGOTIATION", "SIGNED", "ARCHIVE"}
ProjectStatus == {"ACTIVE", "ON_HOLD", "COMPLETED", "QUOTE_GIVEN"}
AssignmentStatus == {"TODO", "IN_PROGRESS", "DONE"}

StringKeys == {"developer", "standard", "scopeValue", "remaining"}
NumberKeys == {"units", "execution"}
ProjectKeys ==
  {"name", "listKind", "status", "startDate"} \cup StringKeys \cup NumberKeys
NullableKeys == StringKeys \cup NumberKeys \cup {"startDate"}

\* z.coerce.number(): Number(input).  [ok, v]; ok is FALSE for NaN.
CoerceNumber(j) ==
  IF IsJNum(j) THEN [ok |-> TRUE, v |-> j.num]
  ELSE IF IsJNull(j) THEN [ok |-> TRUE, v |-> 0]
  ELSE IF IsJStr(j) /\ \A i \in 1..Len(Trim(j.str)) : Trim(j.str)[i] \in Digits
    THEN [ok |-> TRUE, v |-> NumberOfDigits(Trim(j.str))]
  ELSE [ok |-> FALSE, v |-> 0]

\* z.coerce.date(): new Date(input).  A date string is [date |-> d], the
\* Date it parses to is the integer d; null coerces to the epoch, day 0.
IsJDate(j) == "date" \in DOMAIN j
CoerceDate(j) ==
  IF IsJDate(j) THEN [ok |-> TRUE, v |-> j.date]
  ELSE IF IsJNull(j) THEN [ok |-> TRUE, v |-> 0]
  ELSE IF IsJNum(j) THEN [ok |-> TRUE, v |-> j.num]
  ELSE [ok |-> FALSE, v |-> 0]

\* One scalar field of createProjectSchema: is the JSON value j accepted?
CreateFieldOk(k, j) ==
  CASE k = "name" -> IsJStr(j) /\ Len(j.str) >= 1
    [] k \in StringKeys -> IsJStr(j)
    [] k = "listKind" -> IsJStr(j) /\ j.str \in ListKind
    [] k = "status" -> IsJStr(j) /\ j.str \in ProjectStatus
    [] k = "units" -> CoerceNumber(j).ok /\ CoerceNumber(j).v >= 0
    [] k = "execution" ->
         CoerceNumber(j).ok /\ CoerceNumber(j).v >= 0 /\ CoerceNumber(j).v <= 100
    [] k = "startDate" -> CoerceDate(j).ok

\* The parsed value of an accepted field (never null for the create schema).
FieldValue(k, j) ==
  CASE k \in NumberKeys -> Some(CoerceNumber(j).v)
    [] k = "startDate" -> Some(CoerceDate(j).v)
    [] OTHER -> Some(j.str)

InitialAssignmentOk(a) ==
  /\ "title" \in DOMAIN a /\ IsJStr(a.title) /\ Len(a.title.str) >= 1
  /\ "notes" \in DOMAIN a => IsJStr(a.notes)
  /\ "assigneeName" \in DOMAIN a => IsJStr(a.assigneeName)
  /\ "dueDate" \in DOMAIN a => CoerceDate(a.dueDate).ok

ContactOk(c) ==
  /\ "name" \in DOMAIN c /\ IsJStr(c.name) /\ Len(c.name.str) >= 1
  /\ "phone" \in DOMAIN c /\ IsJStr(c.phone) /\ Len(c.phone.str) >= 3

createProjectSchemaOk(body) ==
  /\ "name" \in DOMAIN body
  /\ \A k \in DOMAIN body \cap ProjectKeys : CreateFieldOk(k, body[k])
  /\ "initialAssignment" \in DOMAIN body => InitialAssignmentOk(body.initialAssignment)
  /\ "initialContacts" \in DOMAIN body =>
       \A i \in 1..Len(body.initialContacts) : ContactOk(body.initialContacts[i])

\* createProjectSchema.parse(body) for an accepted body: unknown keys are
\* stripped, listKind and status get their defaults.
createProjectSchemaParse(body) ==
  [k \in ((DOMAIN body \cap ProjectKeys) \cup {"listKind", "status"})
     \cup (DOMAIN body \cap {"initialAssignment", "initialContacts"}) |->
     IF k \in {"initialAssignment", "initialContacts"} THEN body[k]
     ELSE IF k \in DOMAIN body THEN FieldValue(k, body[k])
     ELSE IF k = "listKind" THEN Some("NEGOTIATION") ELSE Some("ACTIVE")]

\* An update schema whose execution has no .min(0).max(100).
UpdateFieldOkNoRange(k, j) ==
  IF k \in NullableKeys /\ IsJNull(j) THEN TRUE
  ELSE IF k = "execution" THEN CoerceNumber(j).ok
  ELSE CreateFieldOk(k, j)

\* One field of updateProjectSchema.
UpdateFieldOk(k, j) ==
  IF k \in NullableKeys /\ IsJNull(j) THEN TRUE ELSE CreateFieldOk(k, j)

updateProjectSchemaOk(body) ==
  \A k \in DOMAIN body \cap ProjectKeys : UpdateFieldOk(k, body[k])

\* updateProjectSchema.parse(body): present keys only, null kept as null.
updateProjectSchemaParse(body) ==
  [k \in DOMAIN body \cap ProjectKeys |->
     IF IsJNull(body[k]) THEN NULL ELSE FieldValue(k, body[k])]

\* ------------------------------------------------------- derived remaining
\* String(Math.max(0, Math.round(numericScope * (100 - clamped) / 100)))
DerivedRemainingBad(scope, e) ==
  LET numericScope == NumberOfDigits(StripNonDigits(scope))
  IN  StringOfNat(Max(0, MathRound(numericScope * Max(0, Min(100, e)), 100)))

DerivedRemaining(scope, e) ==
  LET numericScope == NumberOfDigits(StripNonDigits(scope))
      clamped == Max(0, Min(100, e))
      remainingPct == 100 - clamped
  IN  StringOfNat(Max(0, MathRound(numericScope * remainingPct, 100)))

\* data[k] ?? NULL: the value of key k, null when the key is undefined.
Get(data, k) == IF k \in DOMAIN data THEN data[k] ELSE NULL

\* data with key k set to v.
With(data, k, v) ==
  [x \in DOMAIN data \cup {k} |-> IF x = k THEN v ELSE data[x]]

\* createProject, the block before the transaction: derive remaining when
\* it is null or undefined and scopeValue is a string and execution a number.
CreateWithRemaining(data) ==
  IF /\ IsNull(Get(data, "remaining"))
     /\ ~IsNull(Get(data, "scopeValue"))
     /\ ~IsNull(Get(data, "execution"))
  THEN With(data, "remaining",
            Some(DerivedRemaining(Val(data.scopeValue), Val(data.execution))))
  ELSE data

\* A patch that derives whatever remaining the request carries.
PatchWithRemainingAlways(data) ==
  IF /\ ~IsNull(Get(data, "scopeValue")) /\ Val(data.scopeValue) # <<>>
     /\ ~IsNull(Get(data, "execution"))
  THEN With(data, "remaining",
            Some(DerivedRemaining(Val(data.scopeValue), Val(data.execution))))
  ELSE data

\* patchProject, the block before the update.  data.remaining === undefined
\* holds only when the key is absent; scope && ... rejects the empty string.
PatchWithRemaining(data) ==
  LET hasScope == "scopeValue" \in DOMAIN data
      hasExec == "execution" \in DOMAIN data
  IN  IF /\ (hasScope \/ hasExec)
         /\ "remaining" \notin DOMAIN data
         /\ ~IsNull(Get(data, "scopeValue")) /\ Val(data.scopeValue) # <<>>
         /\ ~IsNull(Get(data, "execution"))
      THEN With(data, "remaining",
                Some(DerivedRemaining(Val(data.scopeValue), Val(data.execution))))
      ELSE data

\* clean[k] = v === null ? undefined : v, then prisma.project.update, which
\* leaves a column alone when its key is undefined.
CleanKeys(data) == {k \in DOMAIN data : ~IsNull(data[k])}

\* -------------------------------------------------------------------- auth
UpperCase == <<"A", "B", "C", "D", "E", "F", "G", "H", "I", "J", "K", "L", "M",
               "N", "O", "P", "Q", "R", "S", "T", "U", "V", "W", "X", "Y", "Z">>
LowerCase == <<"a", "b", "c", "d", "e", "f", "g", "h", "i", "j", "k", "l", "m",
               "n", "o", "p", "q", "r", "s", "t", "u", "v", "w", "x", "y", "z">>

\* String.prototype.toLowerCase, on the letters A to Z
ToLowerCase(s) ==
  [i \in 1..Len(s) |->
     IF \E k \in 1..Len(UpperCase) : UpperCase[k] = s[i]
       THEN LowerCase[CHOOSE k \in 1..Len(UpperCase) : UpperCase[k] = s[i]]
       ELSE s[i]]

StartsWith(s, prefix) ==
  Len(s) >= Len(prefix) /\ SubSeq(s, 1, Len(prefix)) = prefix

\* s.slice(n)
Slice(s, n) == SubSeq(s, n + 1, Len(s))

\* The tokens jwt.sign issued under JWT_SECRET that have not expired; login
\* hands them out.
SignedTokens == {<<"g">>}

\* jwt.verify(token, JWT_SECRET) returns (it throws on any other token).
jwtVerify(token) == token \in SignedTokens

\* A middleware that lets every request through.
requireAuthNextAlways(h) == TRUE

\* requireAuth calls next(): the header is there, starts with "bearer " in
\* any case, and the rest of it, trimmed, verifies.
requireAuthNext(h) ==
  IF IsNull(h) \/ ~StartsWith(ToLowerCase(Val(h)), <<"b", "e", "a", "r", "e", "r", " ">>)
    THEN FALSE
    ELSE jwtVerify(Trim(Slice(Val(h), 7)))

\* The Authorization headers of the requests: none, another scheme, a
\* scheme with no token, a token that does not verify, and a good one.
Headers ==
  { NULL,
    Some(<<"B", "a", "s", "i", "c", " ", "g">>),
    Some(<<"B", "e", "a", "r", "e", "r">>),
    Some(<<"b", "e", "a", "r", "e", "r", " ", "x">>),
    Some(<<"B", "e", "a", "r", "e", "r", " ", " ", "g">>) }

\* ------------------------------------------------------------------- store
EmptyStore == [projects |-> {}, assignments |-> {}, contacts |-> {}, files |-> {}]

NoTx == <<>>
NoReq == [op |-> "none"]
NoPeer == [n |-> 0, op |-> "none"]

\* The second client's answer is kept until the first client's handler
\* moves on; the count of its writes stays.
Settled(p) == [n |-> p.n, op |-> "none"]

ProjectById(store, id) == CHOOSE p \in store.projects : p.id = id
ProjectIds(store) == {p.id : p \in store.projects}

\* tx.project.create({data}): columns left undefined get the column default
\* (null); id comes from the sequence, both timestamps from the clock.
ProjectRow(id, data, at) ==
  [id |-> id,
   name |-> Val(data.name),
   developer |-> Get(data, "developer"),
   listKind |-> IF IsNull(Get(data, "listKind")) THEN "NEGOTIATION" ELSE Val(data.listKind),
   status |-> IF IsNull(Get(data, "status")) THEN "ACTIVE" ELSE Val(data.status),
   standard |-> Get(data, "standard"),
   units |-> Get(data, "units"),
   scopeValue |-> Get(data, "scopeValue"),
   startDate |-> Get(data, "startDate"),
   execution |-> Get(data, "execution"),
   remaining |-> Get(data, "remaining"),
   createdAt |-> at,
   updatedAt |-> at]

\* x?.trim() || undefined
TrimOrUndefined(a, k) ==
  IF k \in DOMAIN a /\ Trim(a[k].str) # <<>> THEN Some(Trim(a[k].str)) ELSE NULL

\* tx.assignment.create for the initialAssignment of a create request.
InitialAssignmentRow(id, projectId, a, at) ==
  [id |-> id,
   projectId |-> projectId,
   title |-> a.title.str,
   notes |-> IF "notes" \in DOMAIN a THEN Some(a.notes.str) ELSE NULL,
   assigneeName |-> TrimOrUndefined(a, "assigneeName"),
   dueDate |-> IF "dueDate" \in DOMAIN a THEN Some(CoerceDate(a.dueDate).v) ELSE NULL,
   status |-> "TODO",
   createdAt |-> at,
   updatedAt |-> at]

ContactRow(id, projectId, name, phone, at) ==
  [id |-> id, projectId |-> projectId, name |-> name, phone |-> phone,
   createdAt |-> at, updatedAt |-> at]

\* contact.createMany over cs, names and phones already converted: the rows
\* take consecutive ids from first on.
ContactRows(first, projectId, cs, at) ==
  {ContactRow(first + i - 1, projectId, cs[i].name, cs[i].phone, at) : i \in 1..Len(cs)}

\* An update that writes every column, null for the ones not in the data.
UpdatedRowReplace(row, data, at) ==
  [c \in DOMAIN row |->
     IF c \in CleanKeys(data)
       THEN IF c \in {"name", "listKind", "status"} THEN Val(data[c]) ELSE data[c]
     ELSE IF c = "updatedAt" THEN at
     ELSE IF c \in NullableKeys THEN NULL
     ELSE row[c]]

\* prisma.project.update({where: {id}, data: clean}) applied to one row.
UpdatedRow(row, data, at) ==
  [c \in DOMAIN row |->
     IF c \in CleanKeys(data)
       THEN IF c \in {"name", "listKind", "status"} THEN Val(data[c]) ELSE data[c]
     ELSE IF c = "updatedAt" THEN at
     ELSE row[c]]

\* c => {projectId, name: c.name.trim(), phone: c.phone.trim()}
TrimmedContacts(cs) ==
  [i \in 1..Len(cs) |-> [name |-> Trim(cs[i].name.str), phone |-> Trim(cs[i].phone.str)]]

\* `${Date.now()}-${randomName}${ext}`, the name multer stores the file under
StoredName(at, r) == <<at, r>>

FileRow(id, projectId, storedName, at) ==
  [id |-> id, projectId |-> projectId, storedName |-> storedName,
   createdAt |-> at, updatedAt |-> at]

\* The cascade without the ProjectFile foreign key.
CascadeTablesNoFiles == {"assignments", "contacts"}

\* ON DELETE CASCADE of Assignment, Contact and ProjectFile on Project.
CascadeTables == {"assignments", "contacts", "files"}

\* DELETE FROM "Project" WHERE id = ..., with the foreign keys' cascade.
DeleteProjectRow(store, id) ==
  [t \in DOMAIN store |->
     IF t = "projects" THEN {p \in store[t] : p.id # id}
     ELSE IF t \in CascadeTables THEN {r \in store[t] : r.projectId # id}
     ELSE store[t]]

\* ------------------------------------------------------------- JSON export
\* JSON.stringify of a nullable column: null stays null, a string is a JSON
\* string, a number a JSON number, a Date its ISO string.
JsonOfString(o) == IF IsNull(o) THEN JNull ELSE JStr(Val(o))
JsonOfNumber(o) == IF IsNull(o) THEN JNull ELSE JNum(Val(o))
JsonOfDate(o) == IF IsNull(o) THEN JNull ELSE [date |-> Val(o)]

\* The rows of a set in ascending id order.
RECURSIVE OrderById(_)
OrderById(rows) ==
  IF rows = {} THEN <<>>
  ELSE LET first == CHOOSE r \in rows : \A o \in rows : r.id <= o.id
       IN  <<first>> \o OrderById(rows \ {first})

JsonOfAssignment(a) ==
  [id |-> JNum(a.id), projectId |-> JNum(a.projectId), title |-> JStr(a.title),
   notes |-> JsonOfString(a.notes), assigneeName |-> JsonOfString(a.assigneeName),
   dueDate |-> JsonOfDate(a.dueDate), status |-> JStr(a.status),
   createdAt |-> [date |-> a.createdAt], updatedAt |-> [date |-> a.updatedAt]]

JsonOfContact(c) ==
  [id |-> JNum(c.id), projectId |-> JNum(c.projectId), name |-> JStr(c.name),
   phone |-> JStr(c.phone),
   createdAt |-> [date |-> c.createdAt], updatedAt |-> [date |-> c.updatedAt]]

\* One project of findMany({include: {assignments: true, contacts: true}}).
JsonOfProject(store, p) ==
  [id |-> JNum(p.id), name |-> JStr(p.name), developer |-> JsonOfString(p.developer),
   listKind |-> JStr(p.listKind), status |-> JStr(p.status),
   standard |-> JsonOfString(p.standard), units |-> JsonOfNumber(p.units),
   scopeValue |-> JsonOfString(p.scopeValue), startDate |-> JsonOfDate(p.startDate),
   execution |-> JsonOfNumber(p.execution), remaining |-> JsonOfString(p.remaining),
   createdAt |-> [date |-> p.createdAt], updatedAt |-> [date |-> p.updatedAt],
   assignments |-> [arr |->
     LET as == OrderById({a \in store.assignments : a.projectId = p.id})
     IN  [i \in 1..Len(as) |-> JsonOfAssignment(as[i])]],
   contacts |-> [arr |->
     LET cs == OrderById({c \in store.contacts : c.projectId = p.id})
     IN  [i \in 1..Len(cs) |-> JsonOfContact(cs[i])]]]

\* exportBackup's payload; findMany orders the projects by id.
ExportPayload(store, at) ==
  [version |-> JNum(1),
   exportedAt |-> [date |-> at],
   projectCount |-> JNum(Cardinality(store.projects)),
   projects |-> [arr |-> [i \in 1..Cardinality(store.projects) |->
                            JsonOfProject(store, OrderById(store.projects)[i])]]]

\* ------------------------------------------------------------- JSON import
IsJArr(j) == "arr" \in DOMAIN j

\* !body || !Array.isArray(body.projects) is false
ImportBodyOkBad(body) == ~IsJNull(body)

ImportBodyOk(body) ==
  ~IsJNull(body) /\ "projects" \in DOMAIN body /\ IsJArr(body.projects)

\* The elements for (const p of projects) visits: those of an array, the
\* characters of a string; anything else is not iterable and the loop throws.
ImportIterable(body) ==
  "projects" \in DOMAIN body /\ (IsJArr(body.projects) \/ IsJStr(body.projects))

ImportElements(body) ==
  IF IsJArr(body.projects) THEN body.projects.arr
  ELSE [i \in 1..Len(body.projects.str) |-> JStr(<<body.projects.str[i]>>)]

\* p.k ?? null, as a JSON value
JGet(p, k) == IF k \in DOMAIN p THEN p[k] ELSE JNull

\* rest.startDate ? new Date(rest.startDate) : null ; null, undefined and
\* the empty string are falsy.
ImportDate(j) ==
  IF IsJNull(j) \/ (IsJStr(j) /\ j.str = <<>>) THEN NULL ELSE Some(CoerceDate(j).v)
ImportDateOk(j) ==
  IsJNull(j) \/ (IsJStr(j) /\ j.str = <<>>) \/ CoerceDate(j).ok

IsOptString(j) == IsJNull(j) \/ IsJStr(j)
IsOptInt(j) == IsJNull(j) \/ IsJNum(j)

\* Does tx.project.create accept the data built from element p?  The client
\* validates types only: name a string, the enums among their values (or
\* undefined, which takes the column default), the rest nullable.
ImportProjectOk(p) ==
  /\ "name" \in DOMAIN p /\ IsJStr(p.name)
  /\ IF "listKind" \in DOMAIN p
       THEN IsJStr(p.listKind) /\ p.listKind.str \in ListKind ELSE TRUE
  /\ IF "status" \in DOMAIN p
       THEN IsJStr(p.status) /\ p.status.str \in ProjectStatus ELSE TRUE
  /\ \A k \in StringKeys : IsOptString(JGet(p, k))
  /\ \A k \in NumberKeys : IsOptInt(JGet(p, k))
  /\ ImportDateOk(JGet(p, "startDate"))

\* A text column the import forgets to copy.
OptStringDropped(j) == NULL

OptString(j) == IF IsJNull(j) THEN NULL ELSE Some(j.str)
OptInt(j) == IF IsJNull(j) THEN NULL ELSE Some(j.num)

\* The data of tx.project.create in importBackup; id, createdAt, updatedAt,
\* assignments, contacts and files of the element are dropped.
ImportProjectData(p) ==
  [k \in {"name", "developer", "standard", "units", "scopeValue", "startDate",
          "execution", "remaining"}
       \cup (DOMAIN p \cap {"listKind", "status"}) |->
     CASE k \in {"name", "listKind", "status"} -> Some(p[k].str)
       [] k \in StringKeys -> OptString(JGet(p, k))
       [] k \in NumberKeys -> OptInt(JGet(p, k))
       [] k = "startDate" -> ImportDate(JGet(p, k))]

\* Array.isArray(x) && x.length > 0, for the nested assignments or contacts
ImportList(p, k) ==
  IF k \in DOMAIN p /\ IsJArr(p[k]) THEN p[k].arr ELSE <<>>

ImportAssignmentOk(a) ==
  /\ "title" \in DOMAIN a /\ IsJStr(a.title)
  /\ IsOptString(JGet(a, "assigneeName")) /\ IsOptString(JGet(a, "notes"))
  /\ ImportDateOk(JGet(a, "dueDate"))
  /\ IF IsJNull(JGet(a, "status")) THEN TRUE
     ELSE IsJStr(a.status) /\ a.status.str \in AssignmentStatus

ImportAssignmentRow(id, projectId, a, at) ==
  [id |-> id,
   projectId |-> projectId,
   title |-> a.title.str,
   notes |-> OptString(JGet(a, "notes")),
   assigneeName |-> OptString(JGet(a, "assigneeName")),
   dueDate |-> ImportDate(JGet(a, "dueDate")),
   status |-> IF IsJNull(JGet(a, "status")) THEN "TODO" ELSE a.status.str,
   createdAt |-> at,
   updatedAt |-> at]

\* String(c.name ?? "").trim(), for a string or a missing value
ImportContactText(j) == IF IsJNull(j) THEN <<>> ELSE Trim(j.str)

ImportContacts(cs) ==
  [i \in 1..Len(cs) |-> [name |-> ImportContactText(JGet(cs[i], "name")),
                         phone |-> ImportContactText(JGet(cs[i], "phone"))]]

\* ------------------------------------------------------------------ inputs
Shekel == "₪"

Scope500k == <<Shekel, "5", "0", "0", ",", "0", "0", "0">>
Scope1M == <<Shekel, "1", ",", "0", "0", "0", ",", "0", "0", "0">>

AlphaTower == <<"A", "l", "p", "h", "a", " ", "T", "o", "w", "e", "r">>

CreateBodies ==
  { [name |-> JStr(<<"A">>), scopeValue |-> JStr(Scope500k), execution |-> JNum(50)],
    [name |-> JStr(<<"B">>), developer |-> JStr(<<"D">>), listKind |-> JStr("SIGNED"),
     scopeValue |-> JStr(Scope1M), execution |-> JNum(30),
     initialAssignment |-> [title |-> JStr(<<"T">>), assigneeName |-> JStr(<<" ", "W">>)],
     initialContacts |-> << [name |-> JStr(<<"C">>), phone |-> JStr(<<"1", "2", "3">>)],
                            [name |-> JStr(<<" ", "E">>), phone |-> JStr(<<"4", "5", "6", " ">>)] >>],
    [name |-> JStr(<<"G">>), scopeValue |-> JStr(<<"1", "5">>), execution |-> JStr(<<"5", "0">>),
     units |-> JNum(3), startDate |-> [date |-> 7], standard |-> JStr(<<"S">>)],
    [name |-> JStr(<<"G">>), scopeValue |-> JStr(<<"1", "5">>), execution |-> JNum(50),
     remaining |-> JStr(<<"7">>)],
    [name |-> JStr(<<"N">>), scopeValue |-> JStr(<<"n", "/", "a">>), execution |-> JNum(50)],
    [name |-> JStr(<<"A">>), execution |-> JNum(150)],
    [name |-> JStr(AlphaTower), developer |-> JStr(<<"d", "e", "v">>)] }

PatchBodies ==
  { [execution |-> JNum(80)],
    [scopeValue |-> JStr(Scope500k), execution |-> JNum(80)],
    [developer |-> JNull],
    [k \in NullableKeys |-> JNull],
    [name |-> JStr(<<"Z">>), listKind |-> JStr("ARCHIVE"), developer |-> JStr(<<"D", "2">>)],
    [scopeValue |-> JStr(<<"1", "5">>), execution |-> JNum(50), remaining |-> JStr(<<"9">>)],
    [execution |-> JNum(150)] }

ImportBodies ==
  { [version |-> JNum(1),
     projects |-> [arr |-> <<
        [id |-> JNum(1), name |-> JStr(<<"P">>), developer |-> JStr(<<"D">>),
         listKind |-> JStr("SIGNED"), status |-> JStr("ON_HOLD"),
         scopeValue |-> JStr(<<"9">>), execution |-> JNum(10),
         createdAt |-> [date |-> 0], updatedAt |-> [date |-> 0],
         files |-> [arr |-> << [id |-> JNum(1), storedName |-> JStr(<<"f">>)] >>],
         assignments |-> [arr |-> << [title |-> JStr(<<"T">>), status |-> JStr("DONE")],
                                     [title |-> JStr(<<"U">>), dueDate |-> [date |-> 5]] >>],
         contacts |-> [arr |-> << [name |-> JStr(<<"C", " ">>), phone |-> JStr(<<"1", "2", "3">>)] >>]],
        [id |-> JNum(1), name |-> JStr(<<"Q">>), execution |-> JNum(150)] >>]],
    [version |-> JNum(1),
     projects |-> [arr |-> << [name |-> JStr(<<"P">>), listKind |-> JStr("ARCHIVE")],
                              [developer |-> JStr(<<"D">>)] >>]],
    [version |-> JNum(1), projects |-> [arr |-> <<>>]],
    [version |-> JNum(1)],
    [version |-> JNum(1), projects |-> JStr(<<"x">>)],
    JNull }

\* randomBytes(16).toString("hex")
RandomNames == {"r1"}

\* ------------------------------------------------------------------- state
\* A deployment already in use: one project, created with an initial
\* assignment and two contacts at time 0, with one uploaded file.
SeedBody ==
  [name |-> JStr(<<"B">>), developer |-> JStr(<<"D">>), listKind |-> JStr("SIGNED"),
   scopeValue |-> JStr(Scope1M), execution |-> JNum(30),
   initialAssignment |-> [title |-> JStr(<<"T">>), assigneeName |-> JStr(<<" ", "W">>)],
   initialContacts |-> << [name |-> JStr(<<"C">>), phone |-> JStr(<<"1", "2", "3">>)],
                          [name |-> JStr(<<" ", "E">>), phone |-> JStr(<<"4", "5", "6", " ">>)] >>]

SeedStore ==
  LET data == CreateWithRemaining(createProjectSchemaParse(SeedBody))
  IN  [projects |-> {ProjectRow(1, data, 0)},
       assignments |-> {InitialAssignmentRow(1, 1, data.initialAssignment, 0)},
       contacts |-> ContactRows(1, 1, TrimmedContacts(data.initialContacts), 0),
       files |-> {FileRow(1, 1, StoredName(0, "r1"), 0)}]

\* The server starts on an empty store or on the deployment in use.
Init ==
  /\ \E seeded \in BOOLEAN :
       IF seeded
         THEN /\ db = SeedStore
              /\ seq = [projects |-> 2, assignments |-> 2, contacts |-> 3, files |-> 2]
              /\ s3 = {StoredName(0, "r1")}
         ELSE /\ db = EmptyStore
              /\ seq = [projects |-> 1, assignments |-> 1, contacts |-> 1, files |-> 1]
              /\ s3 = {}
  /\ tx = NoTx
  /\ now = 0
  /\ pc = "idle"
  /\ req = NoReq
  /\ res = [op |-> "none", status |-> 0]
  /\ auth = NULL
  /\ peer = NoPeer
  /\ before = NULL

Respond(op, status) == res' = [op |-> op, status |-> status]

\* A request is taken up when none is being handled.
Idle == pc = "idle" /\ now < MaxOps

\* A request reaches its handler when none is being handled and requireAuth
\* called next() on its Authorization header.
CanBegin == Idle /\ \E h \in Headers : requireAuthNext(h) /\ auth' = h

\* router.use(requireAuth) on a request it does not let through: 401, and
\* no handler runs.
requireAuth(h) ==
  /\ Idle
  /\ ~requireAuthNext(h)
  /\ now' = now + 1
  /\ auth' = h
  /\ req' = [op |-> "requireAuth"]
  /\ Respond("requireAuth", 401)
  /\ UNCHANGED <<db, tx, seq, pc, s3>>
  /\ peer' = Settled(peer)
  /\ UNCHANGED before

\* ------------------------------------------------------- prisma.$transaction
\* Outside a transaction each statement would commit at once.
TxWriteNoTx(store) == /\ db' = store /\ tx' = Some(store)

\* A statement of the open transaction writes to the transaction's view of
\* the store; the committed store does not change before the commit.
TxWrite(store) == /\ tx' = Some(store) /\ UNCHANGED db

OkStatus(op) ==
  CASE op = "createProject" -> 201
    [] op = "deleteProject" -> 204
    [] op = "importBackup" -> 200

FailStatus(op) ==
  CASE op = "createProject" -> 400
    [] op = "deleteProject" -> 400
    [] op = "importBackup" -> 500

\* The rows a transaction removed, table by table.
Removed(was, after) == [t \in DOMAIN was |-> was[t] \ after[t]]

\* The callback returned: the transaction commits and the handler answers.
\* req.removed records what the transaction removed.
TxCommit ==
  /\ pc = "commit"
  /\ db' = Val(tx)
  /\ tx' = NoTx
  /\ pc' = "idle"
  /\ Respond(req.op, OkStatus(req.op))
  /\ req' = With(req, "removed", Removed(db, Val(tx)))
  /\ UNCHANGED <<seq, now, s3, auth>>
  /\ before' = NULL
  /\ peer' = Settled(peer)

\* A statement of the transaction, or the commit, throws (the store is
\* unreachable, the client rejects the data, a row is missing): $transaction
\* rolls back and the handler's catch answers.  Sequence values already
\* drawn are not given back.  req.failedAt records the statement.
TxRollback ==
  /\ pc # "idle"
  /\ tx # NoTx
  /\ tx' = NoTx
  /\ pc' = "idle"
  /\ Respond(req.op, FailStatus(req.op))
  /\ req' = With(req, "failedAt", pc)
  /\ UNCHANGED <<db, seq, now, s3, auth>>
  /\ before' = NULL
  /\ peer' = Settled(peer)

\* --------------------------------------------------- POST /api/projects
\* createProject up to the transaction: parse, derive remaining, open.
CreateProjectBegin(body) ==
  /\ CanBegin
  /\ now' = now + 1
  /\ IF createProjectSchemaOk(body)
       THEN /\ req' = [op |-> "createProject", body |-> body, at |-> now + 1,
                       data |-> CreateWithRemaining(createProjectSchemaParse(body)),
                       projectId |-> 0]
            /\ tx' = Some(db)
            /\ pc' = "cp_project"
            /\ UNCHANGED res
       ELSE /\ req' = [op |-> "createProject", body |-> body]
            /\ Respond("createProject", 400)
            /\ UNCHANGED <<tx, pc>>
  /\ UNCHANGED <<db, seq, s3>>
  /\ before' = tx'
  /\ peer' = Settled(peer)

\* 1. tx.project.create
CreateProjectInsert ==
  /\ pc = "cp_project"
  /\ TxWrite([Val(tx) EXCEPT !.projects = @ \cup {ProjectRow(seq.projects, req.data, req.at)}])
  /\ seq' = [seq EXCEPT !.projects = @ + 1]
  /\ req' = [req EXCEPT !.projectId = seq.projects]
  /\ pc' = "cp_assignment"
  /\ UNCHANGED <<now, res, s3, auth>>
  /\ peer' = Settled(peer)
  /\ UNCHANGED before

\* 2. tx.assignment.create, when initialAssignment is given
CreateProjectAssignment ==
  /\ pc = "cp_assignment"
  /\ IF "initialAssignment" \in DOMAIN req.data
       THEN /\ TxWrite([Val(tx) EXCEPT !.assignments = @ \cup
                    {InitialAssignmentRow(seq.assignments, req.projectId,
                                          req.data.initialAssignment, req.at)}])
            /\ seq' = [seq EXCEPT !.assignments = @ + 1]
       ELSE UNCHANGED <<tx, db, seq>>
  /\ pc' = "cp_contacts"
  /\ UNCHANGED <<now, req, res, s3, auth>>
  /\ peer' = Settled(peer)
  /\ UNCHANGED before

\* 3. tx.contact.createMany, when initialContacts is given and not empty
CreateProjectContacts ==
  /\ pc = "cp_contacts"
  /\ IF "initialContacts" \in DOMAIN req.data /\ Len(req.data.initialContacts) > 0
       THEN /\ TxWrite([Val(tx) EXCEPT !.contacts = @ \cup
                    ContactRows(seq.contacts, req.projectId,
                                TrimmedContacts(req.data.initialContacts), req.at)])
            /\ seq' = [seq EXCEPT !.contacts = @ + Len(req.data.initialContacts)]
       ELSE UNCHANGED <<tx, db, seq>>
  /\ pc' = "commit"
  /\ UNCHANGED <<now, req, res, s3, auth>>
  /\ peer' = Settled(peer)
  /\ UNCHANGED before

\* ------------------------------------------------------ GET /api/projects
\* listParam.parse(req.query.list)
listParam(raw) == IF raw \in ListKind THEN raw ELSE "NEGOTIATION"

\* s LIKE '%q%', what {contains: q} is on PostgreSQL: the match is
\* case-sensitive.
Contains(s, q) ==
  \E i \in 0..(Len(s) - Len(q)) : SubSeq(s, i + 1, i + Len(q)) = q

\* {contains: q} on a nullable column: null matches nothing.
ContainsOpt(o, q) == IF IsNull(o) THEN FALSE ELSE Contains(Val(o), q)

\* (req.query.search as string | undefined)?.trim(), "" when undefined
SearchText(search) == IF IsNull(search) THEN <<>> ELSE Trim(Val(search))

\* A filter that forgets the list.
WhereAnyList(p, list, q) ==
  IF q = <<>> THEN TRUE
  ELSE Contains(p.name, q) \/ ContainsOpt(p.developer, q) \/ ContainsOpt(p.scopeValue, q)

\* The where clause: the list, and any of the three columns when q is set.
Where(p, list, q) ==
  IF p.listKind # list THEN FALSE
  ELSE IF q = <<>> THEN TRUE
  ELSE Contains(p.name, q) \/ ContainsOpt(p.developer, q) \/ ContainsOpt(p.scopeValue, q)

\* The rows of a set with the latest createdAt.
Latest(rows) == {r \in rows : \A o \in rows : o.createdAt <= r.createdAt}

\* orderBy: {createdAt: "desc"}: the orders the store may return the rows
\* in; rows of equal createdAt come in any order.
OrderByCreatedAtDesc(rows) ==
  {s \in [1..Cardinality(rows) -> rows] :
     /\ \A i, j \in 1..Cardinality(rows) : i < j =>
          s[i] # s[j] /\ s[i].createdAt >= s[j].createdAt}

\* include: {assignments: {orderBy: {createdAt: "desc"}, take: 1}}: for each
\* project one of its latest assignments, or none.
LastAssignments(store, ps) ==
  {f \in [{p.id : p \in ps} -> {NULL} \cup {Some(a) : a \in store.assignments}] :
     \A id \in DOMAIN f :
       LET as == {a \in store.assignments : a.projectId = id}
       IN  IF as = {} THEN f[id] = NULL
           ELSE f[id] \in {Some(a) : a \in Latest(as)}}

\* An item whose lastTaskDate is the creation date whatever the due date.
shapeProjectCreatedAt(p, last) ==
  [id |-> p.id, name |-> p.name, developer |-> p.developer, status |-> p.status,
   scopeValue |-> p.scopeValue, units |-> p.units, standard |-> p.standard,
   execution |-> p.execution, remaining |-> p.remaining, startDate |-> p.startDate,
   lastTaskTitle |-> IF IsNull(last) THEN NULL ELSE Some(Val(last).title),
   lastHandlerName |-> IF IsNull(last) THEN NULL ELSE Val(last).assigneeName,
   lastTaskDate |-> IF IsNull(last) THEN NULL ELSE Some(Val(last).createdAt),
   createdAt |-> p.createdAt]

\* One item of shapeProjectList; last is p.assignments[0].
shapeProject(p, last) ==
  [id |-> p.id, name |-> p.name, developer |-> p.developer, status |-> p.status,
   scopeValue |-> p.scopeValue, units |-> p.units, standard |-> p.standard,
   execution |-> p.execution, remaining |-> p.remaining, startDate |-> p.startDate,
   lastTaskTitle |-> IF IsNull(last) THEN NULL ELSE Some(Val(last).title),
   lastHandlerName |-> IF IsNull(last) THEN NULL ELSE Val(last).assigneeName,
   lastTaskDate |-> IF IsNull(last) THEN NULL
                    ELSE IF IsNull(Val(last).dueDate) THEN Some(Val(last).createdAt)
                    ELSE Val(last).dueDate,
   createdAt |-> p.createdAt]

\* The queries of the list requests: list and search as sent.
ListQueries ==
  { [list |-> "SIGNED", search |-> NULL],
    [list |-> "NEGOTIATION", search |-> Some(<<"a", "l", "p", "h", "a">>)],
    [list |-> "NEGOTIATION", search |-> Some(<<" ", "T", "o", "w", "e", "r">>)],
    [list |-> "NEGOTIATION", search |-> Some(<<"z", "z">>)],
    [list |-> "ARCHIVE", search |-> Some(<<"D">>)],
    [list |-> "SIGNED", search |-> Some(<<"1", ",", "0", "0", "0">>)],
    [list |-> "ALL", search |-> Some(<<" ">>)] }

listProjects(list, search) ==
  /\ CanBegin
  /\ now' = now + 1
  /\ req' = [op |-> "listProjects", list |-> list, search |-> search]
  /\ LET found == {p \in db.projects : Where(p, listParam(list), SearchText(search))}
     IN  \E items \in OrderByCreatedAtDesc(found), last \in LastAssignments(db, found) :
           res' = [op |-> "listProjects", status |-> 200,
                   body |-> [i \in 1..Len(items) |-> shapeProject(items[i], last[items[i].id])]]
  /\ UNCHANGED <<db, tx, seq, pc, s3>>
  /\ peer' = Settled(peer)
  /\ UNCHANGED before

\* ---------------------------------------------- PATCH /api/projects/:id
patchProject(id, body) ==
  /\ CanBegin
  /\ now' = now + 1
  /\ req' = [op |-> "patchProject", id |-> id, body |-> body]
  /\ IF updateProjectSchemaOk(body) /\ id \in ProjectIds(db)
       THEN /\ db' = [db EXCEPT !.projects =
                       (@ \ {ProjectById(db, id)}) \cup
                       {UpdatedRow(ProjectById(db, id),
                                   PatchWithRemaining(updateProjectSchemaParse(body)),
                                   now + 1)}]
            /\ Respond("patchProject", 200)
       ELSE /\ Respond("patchProject", 400)
            /\ UNCHANGED db
  /\ UNCHANGED <<tx, seq, pc, s3>>
  /\ peer' = Settled(peer)
  /\ UNCHANGED before

\* --------------------------------------------- DELETE /api/projects/:id
deleteProjectBegin(id) ==
  /\ CanBegin
  /\ now' = now + 1
  /\ req' = [op |-> "deleteProject", id |-> id]
  /\ tx' = Some(db)
  /\ pc' = "dp_assignments"
  /\ UNCHANGED <<db, seq, res, s3>>
  /\ before' = tx'
  /\ peer' = Settled(peer)

\* tx.assignment.deleteMany({where: {projectId: id}})
deleteProjectAssignments ==
  /\ pc = "dp_assignments"
  /\ TxWrite([Val(tx) EXCEPT !.assignments = {a \in @ : a.projectId # req.id}])
  /\ pc' = "dp_project"
  /\ UNCHANGED <<seq, now, req, res, s3, auth>>
  /\ peer' = Settled(peer)
  /\ UNCHANGED before

\* tx.project.delete({where: {id}}); it throws when no such row exists.
deleteProjectDelete ==
  /\ pc = "dp_project"
  /\ req.id \in ProjectIds(Val(tx))
  /\ TxWrite(DeleteProjectRow(Val(tx), req.id))
  /\ pc' = "commit"
  /\ UNCHANGED <<seq, now, req, res, s3, auth>>
  /\ peer' = Settled(peer)
  /\ UNCHANGED before

\* --------------------------------------------- DELETE /api/assignments/:id
\* prisma.assignment.delete({where: {id}}), then 204; it throws when there is
\* no such row (gone) or the store cannot be reached (~dbok), and the catch
\* answers 400 for every error.
deleteAssignment(id, dbok) ==
  /\ CanBegin
  /\ now' = now + 1
  /\ req' = [op |-> "deleteAssignment", id |-> id, dbok |-> dbok,
              gone |-> \A a \in db.assignments : a.id # id]
  /\ IF dbok /\ \E a \in db.assignments : a.id = id
       THEN /\ db' = [db EXCEPT !.assignments = {a \in @ : a.id # id}]
            /\ Respond("deleteAssignment", 204)
       ELSE /\ Respond("deleteAssignment", 400)
            /\ UNCHANGED db
  /\ UNCHANGED <<tx, seq, pc, s3>>
  /\ peer' = Settled(peer)
  /\ UNCHANGED before

\* ---------------------------------------- POST /api/projects/:id/contacts
createContactSchemaOk(body) ==
  /\ "name" \in DOMAIN body /\ IsJStr(body.name) /\ Len(body.name.str) >= 1
  /\ "phone" \in DOMAIN body /\ IsJStr(body.phone) /\ Len(body.phone.str) >= 3

ContactBodies ==
  { [name |-> JStr(<<" ", "N">>), phone |-> JStr(<<"1", "2", " ">>)],
    [name |-> JStr(<<"N">>), phone |-> JStr(<<"1", "2">>)] }

\* createContact: parse, then contact.create with no look at the project;
\* the insert throws when the project does not exist (foreign key, checked
\* after the id was drawn from the sequence); every error is answered 400.
createContact(id, body) ==
  /\ CanBegin
  /\ now' = now + 1
  /\ req' = [op |-> "createContact", id |-> id, body |-> body]
  /\ IF ~createContactSchemaOk(body)
       THEN /\ Respond("createContact", 400)
            /\ UNCHANGED <<db, seq>>
       ELSE /\ seq' = [seq EXCEPT !.contacts = @ + 1]
            /\ IF id \in ProjectIds(db)
                 THEN /\ db' = [db EXCEPT !.contacts = @ \cup
                                 {ContactRow(seq.contacts, id, Trim(body.name.str),
                                             Trim(body.phone.str), now + 1)}]
                      /\ Respond("createContact", 201)
                 ELSE /\ Respond("createContact", 400)
                      /\ UNCHANGED db
  /\ UNCHANGED <<tx, pc, s3>>
  /\ peer' = Settled(peer)
  /\ UNCHANGED before

\* ------------------------------------------------ DELETE /api/contacts/:id
\* prisma.contact.delete({where: {id}}), then 204; it throws when there is no
\* such row (gone) or the store cannot be reached (~dbok), and the catch
\* answers 400 for every error.
deleteContact(id, dbok) ==
  /\ CanBegin
  /\ now' = now + 1
  /\ req' = [op |-> "deleteContact", id |-> id, dbok |-> dbok,
              gone |-> \A c \in db.contacts : c.id # id]
  /\ IF dbok /\ \E c \in db.contacts : c.id = id
       THEN /\ db' = [db EXCEPT !.contacts = {c \in @ : c.id # id}]
            /\ Respond("deleteContact", 204)
       ELSE /\ Respond("deleteContact", 400)
            /\ UNCHANGED db
  /\ UNCHANGED <<tx, seq, pc, s3>>
  /\ peer' = Settled(peer)
  /\ UNCHANGED before

\* ------------------------------------------- POST /api/projects/:id/files
\* limits.fileSize of the multer instance, in bytes
fileSize == 10 * 1024 * 1024

\* The sizes of the files sent: within the limit and over it.
FileSizes == {1, fileSize + 1}

\* A multer instance without limits.
uploadSingleNoLimit(projectId, r, size) ==
  /\ CanBegin
  /\ now' = now + 1
  /\ req' = [op |-> "uploadFile", id |-> projectId, size |-> size,
              storedName |-> StoredName(now + 1, r)]
  /\ pc' = "uf_s3"
  /\ UNCHANGED <<db, tx, seq, res, s3>>
  /\ peer' = Settled(peer)
  /\ UNCHANGED before

\* upload.single("file"): multer stores the file under a new name and calls
\* the handler, or passes an error on when the file is over the limit, which
\* express answers with 500 without calling the handler.
uploadSingle(projectId, r, size) ==
  /\ CanBegin
  /\ now' = now + 1
  /\ IF size > fileSize
       THEN /\ req' = [op |-> "uploadFile", id |-> projectId, size |-> size]
            /\ Respond("uploadFile", 500)
            /\ UNCHANGED pc
       ELSE /\ req' = [op |-> "uploadFile", id |-> projectId, size |-> size,
                       storedName |-> StoredName(now + 1, r)]
            /\ pc' = "uf_s3"
            /\ UNCHANGED res
  /\ UNCHANGED <<db, tx, seq, s3>>
  /\ peer' = Settled(peer)
  /\ UNCHANGED before

\* A handler that goes on to the insert without the object.
uploadFileNoPut(s3ok) ==
  /\ pc = "uf_s3"
  /\ pc' = "uf_row"
  /\ UNCHANGED <<db, tx, seq, now, req, res, s3, auth>>
  /\ peer' = Settled(peer)
  /\ UNCHANGED before

\* uploadFile up to the insert: uploadToS3 puts the object under the stored
\* name, or throws and the catch answers 500.
uploadFile(s3ok) ==
  /\ pc = "uf_s3"
  /\ IF s3ok
       THEN /\ s3' = s3 \cup {req.storedName}
            /\ pc' = "uf_row"
            /\ UNCHANGED res
       ELSE /\ Respond("uploadFile", 500)
            /\ pc' = "idle"
            /\ UNCHANGED s3
  /\ UNCHANGED <<db, tx, seq, now, req, auth>>
  /\ peer' = Settled(peer)
  /\ UNCHANGED before

\* An insert into a ProjectFile table without the unique index on storedName.
uploadFileCreateNoIndex ==
  /\ pc = "uf_row"
  /\ IF req.id \in ProjectIds(db)
       THEN /\ db' = [db EXCEPT !.files = @ \cup
                       {FileRow(seq.files, req.id, req.storedName, now)}]
            /\ Respond("uploadFile", 201)
       ELSE /\ Respond("uploadFile", 500)
            /\ UNCHANGED db
  /\ seq' = [seq EXCEPT !.files = @ + 1]
  /\ pc' = "idle"
  /\ UNCHANGED <<tx, now, req, s3, auth>>
  /\ peer' = Settled(peer)
  /\ UNCHANGED before

\* prisma.projectFile.create; it throws when the stored name is taken (unique
\* index) or the project does not exist (foreign key, checked after the id
\* was drawn from the sequence).
uploadFileCreate ==
  /\ pc = "uf_row"
  /\ IF /\ req.id \in ProjectIds(db)
        /\ \A f \in db.files : f.storedName # req.storedName
       THEN /\ db' = [db EXCEPT !.files = @ \cup
                       {FileRow(seq.files, req.id, req.storedName, now)}]
            /\ seq' = [seq EXCEPT !.files = @ + 1]
            /\ Respond("uploadFile", 201)
       ELSE /\ Respond("uploadFile", 500)
            /\ seq' = [seq EXCEPT !.files =
                         IF req.id \in ProjectIds(db) THEN @ ELSE @ + 1]
            /\ UNCHANGED db
  /\ pc' = "idle"
  /\ UNCHANGED <<tx, now, req, s3, auth>>
  /\ peer' = Settled(peer)
  /\ UNCHANGED before

\* ------------------------------------------------ DELETE /api/files/:fileId
FileById(store, id) == CHOOSE f \in store.files : f.id = id

\* deleteFile up to the removal of the object: findUnique, 404 when there is
\* no such row.
deleteFile(fileId) ==
  /\ CanBegin
  /\ now' = now + 1
  /\ IF \E f \in db.files : f.id = fileId
       THEN /\ req' = [op |-> "deleteFile", id |-> fileId,
                       storedName |-> FileById(db, fileId).storedName]
            /\ pc' = "df_s3"
            /\ UNCHANGED res
       ELSE /\ req' = [op |-> "deleteFile", id |-> fileId]
            /\ Respond("deleteFile", 404)
            /\ UNCHANGED pc
  /\ UNCHANGED <<db, tx, seq, s3>>
  /\ peer' = Settled(peer)
  /\ UNCHANGED before

\* A deleteFromS3 whose failure reaches the outer catch.
deleteFileFromS3Fatal(s3ok) ==
  /\ pc = "df_s3"
  /\ req' = With(req, "s3ok", s3ok)
  /\ IF s3ok
       THEN /\ s3' = s3 \ {req.storedName}
            /\ pc' = "df_row"
            /\ UNCHANGED res
       ELSE /\ Respond("deleteFile", 400)
            /\ pc' = "idle"
            /\ UNCHANGED s3
  /\ UNCHANGED <<db, tx, seq, now, auth>>
  /\ peer' = Settled(peer)
  /\ UNCHANGED before

\* deleteFromS3 inside its own try: a failure is logged and nothing else.
deleteFileFromS3(s3ok) ==
  /\ pc = "df_s3"
  /\ s3' = IF s3ok THEN s3 \ {req.storedName} ELSE s3
  /\ req' = With(req, "s3ok", s3ok)
  /\ pc' = "df_row"
  /\ UNCHANGED <<db, tx, seq, now, res, auth>>
  /\ peer' = Settled(peer)
  /\ UNCHANGED before

\* prisma.projectFile.delete({where: {id}}), then 204; it throws when the row
\* is gone, and the catch answers 400.
deleteFileRow ==
  /\ pc = "df_row"
  /\ IF \E f \in db.files : f.id = req.id
       THEN /\ db' = [db EXCEPT !.files = {f \in @ : f.id # req.id}]
            /\ Respond("deleteFile", 204)
       ELSE /\ Respond("deleteFile", 400)
            /\ UNCHANGED db
  /\ pc' = "idle"
  /\ UNCHANGED <<tx, seq, now, req, s3, auth>>
  /\ peer' = Settled(peer)
  /\ UNCHANGED before

\* ------------------------------------------------------- GET /api/backup
exportBackup ==
  /\ CanBegin
  /\ now' = now + 1
  /\ req' = [op |-> "exportBackup"]
  /\ res' = [op |-> "exportBackup", status |-> 200, body |-> ExportPayload(db, now + 1)]
  /\ UNCHANGED <<db, tx, seq, pc, s3>>
  /\ peer' = Settled(peer)
  /\ UNCHANGED before

\* ------------------------------------------------------ POST /api/backup
\* importBackup up to the transaction: the format check, then open.
importBackupBegin(body) ==
  /\ CanBegin
  /\ now' = now + 1
  /\ IF ImportBodyOk(body)
       THEN /\ req' = [op |-> "importBackup", body |-> body, at |-> now + 1,
                       i |-> 1, j |-> 1, created |-> <<>>]
            /\ tx' = Some(db)
            /\ pc' = "ib_del_assignments"
            /\ UNCHANGED res
       ELSE /\ req' = [op |-> "importBackup", body |-> body]
            /\ Respond("importBackup", 400)
            /\ UNCHANGED <<tx, pc>>
  /\ UNCHANGED <<db, seq, s3>>
  /\ before' = tx'
  /\ peer' = Settled(peer)

\* tx.assignment.deleteMany({})
importDeleteAssignments ==
  /\ pc = "ib_del_assignments"
  /\ TxWrite([Val(tx) EXCEPT !.assignments = {}])
  /\ pc' = "ib_del_contacts"
  /\ UNCHANGED <<seq, now, req, res, s3, auth>>
  /\ peer' = Settled(peer)
  /\ UNCHANGED before

\* tx.contact.deleteMany({})
importDeleteContacts ==
  /\ pc = "ib_del_contacts"
  /\ TxWrite([Val(tx) EXCEPT !.contacts = {}])
  /\ pc' = "ib_del_files"
  /\ UNCHANGED <<seq, now, req, res, s3, auth>>
  /\ peer' = Settled(peer)
  /\ UNCHANGED before

\* tx.projectFile.deleteMany({})
importDeleteFiles ==
  /\ pc = "ib_del_files"
  /\ TxWrite([Val(tx) EXCEPT !.files = {}])
  /\ pc' = "ib_del_projects"
  /\ UNCHANGED <<seq, now, req, res, s3, auth>>
  /\ peer' = Settled(peer)
  /\ UNCHANGED before

\* The loop's next position: the next element, or the end of the callback.
ImportNextPc(r) ==
  IF ImportIterable(r.body) /\ r.i > Len(ImportElements(r.body)) THEN "commit"
  ELSE "ib_project"

\* An import that leaves the Project table as it is.
ProjectsKept(store) == store

\* DELETE FROM "Project", with the foreign keys' cascade
ProjectsDeleted(store) ==
  [t \in DOMAIN store |->
     IF t = "projects" \/ t \in CascadeTables THEN {} ELSE store[t]]

\* tx.project.deleteMany({})
importDeleteProjects ==
  /\ pc = "ib_del_projects"
  /\ TxWrite(ProjectsDeleted(Val(tx)))
  /\ pc' = ImportNextPc(req)
  /\ UNCHANGED <<seq, now, req, res, s3, auth>>
  /\ peer' = Settled(peer)
  /\ UNCHANGED before

ImportElement(r) == ImportElements(r.body)[r.i]

\* tx.project.create for element i; it throws when the loop cannot iterate,
\* the element is no object or the client rejects the data.
importProjectCreate ==
  /\ pc = "ib_project"
  /\ ImportIterable(req.body)
  /\ ~IsJStr(ImportElement(req)) /\ ~IsJNull(ImportElement(req))
  /\ ImportProjectOk(ImportElement(req))
  /\ TxWrite([Val(tx) EXCEPT !.projects = @ \cup
               {ProjectRow(seq.projects, ImportProjectData(ImportElement(req)), req.at)}])
  /\ seq' = [seq EXCEPT !.projects = @ + 1]
  /\ req' = [req EXCEPT !.created = Append(@, seq.projects), !.j = 1]
  /\ pc' = "ib_assignments"
  /\ UNCHANGED <<now, res, s3, auth>>
  /\ peer' = Settled(peer)
  /\ UNCHANGED before

\* tx.assignment.create for assignment j of element i, while there is one
importAssignmentCreate ==
  /\ pc = "ib_assignments"
  /\ LET as == ImportList(ImportElement(req), "assignments")
     IN  IF req.j <= Len(as)
           THEN /\ ImportAssignmentOk(as[req.j])
                /\ TxWrite([Val(tx) EXCEPT !.assignments = @ \cup
                     {ImportAssignmentRow(seq.assignments, req.created[req.i],
                                          as[req.j], req.at)}])
                /\ seq' = [seq EXCEPT !.assignments = @ + 1]
                /\ req' = [req EXCEPT !.j = @ + 1]
                /\ pc' = "ib_assignments"
           ELSE /\ pc' = "ib_contacts"
                /\ UNCHANGED <<tx, db, seq, req>>
  /\ UNCHANGED <<now, res, s3, auth>>
  /\ peer' = Settled(peer)
  /\ UNCHANGED before

\* tx.contact.createMany for the contacts of element i, then the next element
importContactsCreate ==
  /\ pc = "ib_contacts"
  /\ LET cs == ImportList(ImportElement(req), "contacts")
     IN  IF Len(cs) > 0
           THEN /\ TxWrite([Val(tx) EXCEPT !.contacts = @ \cup
                     ContactRows(seq.contacts, req.created[req.i], ImportContacts(cs), req.at)])
                /\ seq' = [seq EXCEPT !.contacts = @ + Len(cs)]
           ELSE UNCHANGED <<tx, db, seq>>
  /\ req' = [req EXCEPT !.i = @ + 1]
  /\ pc' = ImportNextPc(req')
  /\ UNCHANGED <<now, res, s3, auth>>
  /\ peer' = Settled(peer)
  /\ UNCHANGED before

\* ------------------------------------------------------------------- spec
\* Ids a request may name: the ones ever issued and one never issued.
IdsOf(table) == 1..seq[table]

\* The bodies of an import request: the fixed ones and the last export.
ImportInputs ==
  ImportBodies \cup (IF res.op = "exportBackup" THEN {res.body} ELSE {})

Next ==
  \/ \E h \in Headers : requireAuth(h)
  \/ \E body \in CreateBodies : CreateProjectBegin(body)
  \/ CreateProjectInsert
  \/ CreateProjectAssignment
  \/ CreateProjectContacts
  \/ \E q \in ListQueries : listProjects(q.list, q.search)
  \/ \E id \in IdsOf("projects"), body \in PatchBodies : patchProject(id, body)
  \/ \E id \in IdsOf("projects") : deleteProjectBegin(id)
  \/ deleteProjectAssignments
  \/ deleteProjectDelete
  \/ \E id \in IdsOf("projects"), r \in RandomNames, size \in FileSizes :
       uploadSingle(id, r, size)
  \/ \E s3ok \in BOOLEAN : uploadFile(s3ok)
  \/ uploadFileCreate
  \/ \E id \in IdsOf("assignments"), dbok \in BOOLEAN : deleteAssignment(id, dbok)
  \/ \E id \in IdsOf("projects"), body \in ContactBodies : createContact(id, body)
  \/ \E id \in IdsOf("contacts"), dbok \in BOOLEAN : deleteContact(id, dbok)
  \/ \E id \in IdsOf("files") : deleteFile(id)
  \/ \E s3ok \in BOOLEAN : deleteFileFromS3(s3ok)
  \/ deleteFileRow
  \/ exportBackup
  \/ \E body \in ImportInputs : importBackupBegin(body)
  \/ importDeleteAssignments
  \/ importDeleteContacts
  \/ importDeleteFiles
  \/ importDeleteProjects
  \/ importProjectCreate
  \/ importAssignmentCreate
  \/ importContactsCreate
  \/ TxCommit
  \/ TxRollback

Spec == Init /\ [][Next]_vars


\* ------------------------------------------------------- a second client
\* The server handles the requests of several clients at once: while the
\* handler of one request awaits the store, the handler of another runs.
\* The actions below are requests of a second client, each one statement on
\* the store, taken at any point of the first client's request.  peer.pc is
\* the point the first client's handler had reached.
PeerCanWrite == peer.n < MaxPeer

Answer(op, status) == [n |-> peer.n, op |-> op, pc |-> pc, status |-> status]

\* The second client's reads.  A read leaves every other variable as it is,
\* so a read that follows a read is taken in its place.
Reads == {"getProject", "listProjects", "exportBackup"}

AnswerWrite(op, status, id) ==
  [n |-> peer.n + 1, op |-> op, pc |-> pc, status |-> status, id |-> id]

\* --------------------------------------------------- GET /api/projects/:id
\* req.params.id as sent.
IdParams == {<<"1">>, <<"2">>, <<"1", "x">>}

\* The project with its assignments and contacts (include: both); their
\* order, createdAt descending, is not kept.
ProjectWithChildren(store, id) ==
  [project |-> ProjectById(store, id),
   assignments |-> {a \in store.assignments : a.projectId = id},
   contacts |-> {c \in store.contacts : c.projectId = id}]

\* A handler that reads the id with parseInt, which stops at the first
\* character that is no digit.
getProjectParseInt(param) ==
  /\ peer.op \notin Reads
  /\ LET id == NumberOfDigits(StripNonDigits(param))
     IN  peer' = IF id \notin ProjectIds(db)
                   THEN With(With(Answer("getProject", 404), "param", param),
                             "lookup", TRUE)
                   ELSE With(With(With(Answer("getProject", 200), "param", param),
                                  "lookup", TRUE),
                             "body", ProjectWithChildren(db, id))
  /\ UNCHANGED <<db, tx, seq, now, pc, req, res, s3, auth, before>>

\* getProject: Number(req.params.id); 400 when it is not finite, before the
\* store is asked (lookup); findUnique, 404 when there is no such project.
getProject(param) ==
  /\ peer.op \notin Reads
  /\ LET id == CoerceNumber(JStr(param))
     IN  peer' = IF ~id.ok
                   THEN With(With(Answer("getProject", 400), "param", param),
                             "lookup", FALSE)
                 ELSE IF id.v \notin ProjectIds(db)
                   THEN With(With(Answer("getProject", 404), "param", param),
                             "lookup", TRUE)
                 ELSE With(With(With(Answer("getProject", 200), "param", param),
                                "lookup", TRUE),
                           "body", ProjectWithChildren(db, id.v))
  /\ UNCHANGED <<db, tx, seq, now, pc, req, res, s3, auth, before>>

\* ------------------------------------------------------ the reads, again
\* The bodies listProjects may answer with on the store.
ListBodies(store, list, search) ==
  LET found == {p \in store.projects : Where(p, listParam(list), SearchText(search))}
  IN  {[i \in 1..Len(items) |-> shapeProject(items[i], last[items[i].id])] :
         items \in OrderByCreatedAtDesc(found), last \in LastAssignments(store, found)}

ClientListQueries == {q \in ListQueries : q.list = "SIGNED" /\ IsNull(q.search)}

\* listProjects for the second client: prisma.project.findMany reads the
\* committed store.
peerListProjects(q) ==
  /\ peer.op \notin Reads
  /\ \E body \in ListBodies(db, q.list, q.search) :
       peer' = With(With(Answer("listProjects", 200), "query", q), "body", body)
  /\ UNCHANGED <<db, tx, seq, now, pc, req, res, s3, auth, before>>

\* exportBackup for the second client.
peerExportBackup ==
  /\ peer.op \notin Reads
  /\ peer' = With(Answer("exportBackup", 200), "body", ExportPayload(db, now))
  /\ UNCHANGED <<db, tx, seq, now, pc, req, res, s3, auth, before>>

\* ------------------------------------------- statements of another session
\* The project row is gone in the open transaction and the transaction has
\* not ended: an insert that references the row waits for it.
ParentLocked(id) ==
  tx # NoTx /\ id \in ProjectIds(db) /\ id \notin ProjectIds(Val(tx))

\* An insert of another session commits at once; the later statements of
\* the open transaction see the row (READ COMMITTED).
PeerInsert(table, row) ==
  /\ db' = [db EXCEPT ![table] = @ \cup {row}]
  /\ tx' = IF tx = NoTx THEN tx ELSE Some([Val(tx) EXCEPT ![table] = @ \cup {row}])

\* ------------------------------------- POST /api/projects/:id/assignments
createAssignmentSchemaOk(body) ==
  /\ "title" \in DOMAIN body /\ IsJStr(body.title) /\ Len(body.title.str) >= 1
  /\ "notes" \in DOMAIN body => IsJStr(body.notes)
  /\ "assigneeName" \in DOMAIN body => IsJStr(body.assigneeName)
  /\ "dueDate" \in DOMAIN body => IsJNull(body.dueDate) \/ CoerceDate(body.dueDate).ok

AssignmentBodies ==
  { [title |-> JStr(<<"U">>), dueDate |-> [date |-> 5]],
    [title |-> JStr(<<>>)] }

\* The row of prisma.assignment.create; dueDate: data.dueDate ?? undefined.
AssignmentRow(id, projectId, a, at) ==
  [InitialAssignmentRow(id, projectId, a, at) EXCEPT
     !.dueDate = IF "dueDate" \in DOMAIN a /\ ~IsJNull(a.dueDate)
                   THEN Some(CoerceDate(a.dueDate).v) ELSE NULL]

\* An insert into an Assignment table without the foreign key.
createAssignmentUnchecked(id, body) ==
  /\ PeerCanWrite
  /\ IF ~createAssignmentSchemaOk(body)
       THEN /\ peer' = AnswerWrite("createAssignment", 400, id)
            /\ UNCHANGED <<db, tx, seq>>
       ELSE /\ seq' = [seq EXCEPT !.assignments = @ + 1]
            /\ PeerInsert("assignments", AssignmentRow(seq.assignments, id, body, now))
            /\ peer' = AnswerWrite("createAssignment", 201, id)
  /\ UNCHANGED <<now, pc, req, res, s3, auth, before>>

\* createAssignment: parse, prisma.assignment.create, 201; the catch answers
\* 400 for a body the schema rejects and for a project that does not exist
\* (foreign key, checked after the id was drawn from the sequence).
createAssignment(id, body) ==
  /\ PeerCanWrite
  /\ ~ParentLocked(id)
  /\ IF ~createAssignmentSchemaOk(body)
       THEN /\ peer' = AnswerWrite("createAssignment", 400, id)
            /\ UNCHANGED <<db, tx, seq>>
       ELSE /\ seq' = [seq EXCEPT !.assignments = @ + 1]
            /\ IF id \in ProjectIds(db)
                 THEN /\ PeerInsert("assignments",
                                    AssignmentRow(seq.assignments, id, body, now))
                      /\ peer' = AnswerWrite("createAssignment", 201, id)
                 ELSE /\ peer' = AnswerWrite("createAssignment", 400, id)
                      /\ UNCHANGED <<db, tx>>
  /\ UNCHANGED <<now, pc, req, res, s3, auth, before>>

\* createContact for the second client, with a body the schema accepts.
peerCreateContact(id, body) ==
  /\ PeerCanWrite
  /\ ~ParentLocked(id)
  /\ createContactSchemaOk(body)
  /\ seq' = [seq EXCEPT !.contacts = @ + 1]
  /\ IF id \in ProjectIds(db)
       THEN /\ PeerInsert("contacts",
                          ContactRow(seq.contacts, id, Trim(body.name.str),
                                     Trim(body.phone.str), now))
            /\ peer' = AnswerWrite("createContact", 201, id)
       ELSE /\ peer' = AnswerWrite("createContact", 400, id)
            /\ UNCHANGED <<db, tx>>
  /\ UNCHANGED <<now, pc, req, res, s3, auth, before>>

\* A committed file row of that name is gone in the open transaction: an
\* insert of the same name waits for the transaction to end.
NameLocked(name) ==
  tx # NoTx /\ \E f \in db.files : f.storedName = name /\ f \notin Val(tx).files

\* An upload of the second client in the millisecond of the first client's
\* request: multer names the file, uploadToS3 puts the object, and
\* prisma.projectFile.create inserts the row or throws (unique index,
\* foreign key), which the catch answers with 500.
peerUploadFile(id, r) ==
  /\ PeerCanWrite
  /\ ~ParentLocked(id)
  /\ ~NameLocked(StoredName(now, r))
  /\ s3' = s3 \cup {StoredName(now, r)}
  /\ IF /\ id \in ProjectIds(db)
        /\ \A f \in db.files : f.storedName # StoredName(now, r)
       THEN /\ PeerInsert("files", FileRow(seq.files, id, StoredName(now, r), now))
            /\ seq' = [seq EXCEPT !.files = @ + 1]
            /\ peer' = With(AnswerWrite("uploadFile", 201, id), "storedName", StoredName(now, r))
       ELSE /\ peer' = With(AnswerWrite("uploadFile", 500, id), "storedName", StoredName(now, r))
            /\ seq' = [seq EXCEPT !.files =
                         IF id \in ProjectIds(db) THEN @ ELSE @ + 1]
            /\ UNCHANGED <<db, tx>>
  /\ UNCHANGED <<now, pc, req, res, auth, before>>

\* ------------------------------------------------------ two clients' spec
\* The first client's requests: the create request is the seeded one again.
ClientImportBodies ==
  {b \in ImportBodies :
     /\ ImportIterable(b) /\ Len(ImportElements(b)) = 2
     /\ \A i \in 1..2 : ImportProjectOk(ImportElements(b)[i])}

\* The second client addresses the first project or the one after it.
ClientIds == {1, 2}

\* The first client begins a request.
FirstCanBegin == now < MaxFirst

\* The first client's multi-step writes next to a second client that reads.
NextReaders ==
  \/ FirstCanBegin /\ CreateProjectBegin(SeedBody)
  \/ CreateProjectInsert
  \/ CreateProjectAssignment
  \/ CreateProjectContacts
  \/ \E id \in IdsOf("projects") : FirstCanBegin /\ deleteProjectBegin(id)
  \/ deleteProjectAssignments
  \/ deleteProjectDelete
  \/ \E body \in ClientImportBodies : FirstCanBegin /\ importBackupBegin(body)
  \/ importDeleteAssignments
  \/ importDeleteContacts
  \/ importDeleteFiles
  \/ importDeleteProjects
  \/ importProjectCreate
  \/ importAssignmentCreate
  \/ importContactsCreate
  \/ TxCommit
  \/ TxRollback
  \/ \E param \in IdParams : getProject(param)
  \/ \E q \in ClientListQueries : peerListProjects(q)
  \/ peerExportBackup

\* The two clients meet on the deployment in use.
InitClients == Init /\ db = SeedStore

SpecReaders == InitClients /\ [][NextReaders]_vars

\* The first client's writes next to a second client that writes, and lists.
NextWriters ==
  \/ FirstCanBegin /\ CreateProjectBegin(SeedBody)
  \/ CreateProjectInsert
  \/ CreateProjectAssignment
  \/ CreateProjectContacts
  \/ \E id \in IdsOf("projects") : FirstCanBegin /\ deleteProjectBegin(id)
  \/ deleteProjectAssignments
  \/ deleteProjectDelete
  \/ \E body \in ClientImportBodies : FirstCanBegin /\ importBackupBegin(body)
  \/ importDeleteAssignments
  \/ importDeleteContacts
  \/ importDeleteFiles
  \/ importDeleteProjects
  \/ importProjectCreate
  \/ importAssignmentCreate
  \/ importContactsCreate
  \/ TxCommit
  \/ TxRollback
  \/ \E id \in IdsOf("projects"), r \in RandomNames :
       FirstCanBegin /\ uploadSingle(id, r, 1)
  \/ \E s3ok \in BOOLEAN : uploadFile(s3ok)
  \/ uploadFileCreate
  \/ \E q \in ClientListQueries : peerListProjects(q)
  \/ \E id \in ClientIds, body \in AssignmentBodies : createAssignment(id, body)
  \/ \E id \in ClientIds, body \in ContactBodies : peerCreateContact(id, body)
  \/ \E id \in ClientIds, r \in RandomNames : peerUploadFile(id, r)

SpecWriters == InitClients /\ [][NextWriters]_vars

\* ================================================================ claims
\* The request op has been answered and no other request has begun.
Done(op) == pc = "idle" /\ req.op = op /\ res.op = op

HasDigit(s) == \E i \in 1..Len(s) : s[i] \in Digits

\* s is the decimal numeral of a natural number: digits, no leading zero.
IsDecimalNumeral(s) ==
  /\ Len(s) >= 1
  /\ \A i \in 1..Len(s) : s[i] \in Digits
  /\ Len(s) > 1 => s[1] # "0"

\* A create request answered 201 whose body has a scopeValue with digits, an
\* execution in [0,100] and no remaining.
C1Case ==
  /\ Done("createProject") /\ res.status = 201
  /\ "scopeValue" \in DOMAIN req.body /\ IsJStr(req.body.scopeValue)
  /\ HasDigit(req.body.scopeValue.str)
  /\ "execution" \in DOMAIN req.body /\ CoerceNumber(req.body.execution).ok
  /\ CoerceNumber(req.body.execution).v \in 0..100
  /\ "remaining" \notin DOMAIN req.body

\* C1: after such a create the persisted remaining is the decimal numeral of
\* round(numeric(scopeValue) * (100 - execution) / 100), numeric being the
\* number spelled by the digits of scopeValue: the numeral's value v is the
\* integer with v <= x + 1/2 < v + 1 for x = numeric * (100 - execution) / 100.
C1_DerivedRemainingOnCreate ==
  C1Case =>
    LET p == ProjectById(db, req.projectId)
        numeric == NumberOfDigits(StripNonDigits(req.body.scopeValue.str))
        x100 == numeric * (100 - CoerceNumber(req.body.execution).v)
    IN  /\ ~IsNull(p.remaining)
        /\ IsDecimalNumeral(Val(p.remaining))
        /\ 100 * NumberOfDigits(Val(p.remaining)) <= x100 + 50
        /\ x100 + 50 < 100 * (NumberOfDigits(Val(p.remaining)) + 1)

\* The spec's example: scopeValue "₪1,000,000", execution 30, remaining "700000".
C1_Witness ==
  /\ C1Case
  /\ req.body.scopeValue.str = Scope1M
  /\ req.body.execution = JNum(30)
  /\ ProjectById(db, req.projectId).remaining = Some(<<"7", "0", "0", "0", "0", "0">>)

\* A patch answered 200 that carries scopeValue or execution and no remaining.
C2Case ==
  /\ Done("patchProject") /\ res.status = 200
  /\ {"scopeValue", "execution"} \cap DOMAIN req.body # {}
  /\ "remaining" \notin DOMAIN req.body

PatchStep ==
  pc = "idle" /\ now' = now + 1 /\ req'.op = "patchProject" /\ res'.status = 200

\* C3 as stated: a patch leaves every field it does not carry as it was.
C3_AbsentFieldsUnchanged ==
  [][PatchStep =>
       \A k \in ProjectKeys \ DOMAIN req'.body :
         ProjectById(db', req'.id)[k] = ProjectById(db, req'.id)[k]]_vars

\* The patch carries what the derivation needs: a non-empty string
\* scopeValue, a number execution, and no remaining key.
PatchDerives(body) ==
  /\ "remaining" \notin DOMAIN body
  /\ "scopeValue" \in DOMAIN body /\ IsJStr(body.scopeValue) /\ body.scopeValue.str # <<>>
  /\ "execution" \in DOMAIN body /\ ~IsJNull(body.execution)

\* C3, amended: a patch leaves every column it does not carry as it was,
\* except updatedAt, which the store refreshes, and except remaining when
\* the patch carries a non-empty scopeValue and an execution and no remaining.
C3_AbsentFieldsUnchangedButDerived ==
  [][PatchStep =>
       \A k \in (DOMAIN ProjectById(db, req'.id) \ {"updatedAt"}) \ DOMAIN req'.body :
         \/ k = "remaining" /\ PatchDerives(req'.body)
         \/ ProjectById(db', req'.id)[k] = ProjectById(db, req'.id)[k]]_vars

\* A patch of scopeValue and execution only has been applied to the project
\* of the deployment in use: developer, not in the patch, is still "D", and
\* remaining, not in the patch either, is the derived "100000".
C3_Witness ==
  /\ Done("patchProject") /\ res.status = 200
  /\ DOMAIN req.body = {"scopeValue", "execution"}
  /\ ProjectById(db, req.id).developer = Some(<<"D">>)
  /\ ProjectById(db, req.id).remaining = Some(<<"1", "0", "0", "0", "0", "0">>)

\* C4: after a patch answered 200, every nullable field the patch carries as
\* null reads as null.
C4_ExplicitNullClears ==
  (Done("patchProject") /\ res.status = 200) =>
    \A k \in DOMAIN req.body \cap NullableKeys :
      IsJNull(req.body[k]) => IsNull(ProjectById(db, req.id)[k])

\* C5: no step of a running import other than its successful commit changes
\* the committed store, so an import that fails after it has started ends
\* with the store it began with.
C5_FailedImportKeepsStore ==
  [][(req.op = "importBackup" /\ pc # "idle" /\ ~(pc' = "idle" /\ res'.status = 200))
       => db' = db]_vars

\* An import has failed while re-inserting, after the delete phase and after
\* it had inserted a project, and the deployment's rows are all in the store.
C5_Witness ==
  /\ Done("importBackup") /\ res.status = 500
  /\ "failedAt" \in DOMAIN req
  /\ req.failedAt \in {"ib_project", "ib_assignments", "ib_contacts"}
  /\ Len(req.created) >= 1
  /\ db = SeedStore

\* C6: an import whose body is missing, or whose projects is missing or no
\* array, is answered 400 in its first step: no transaction is opened, so
\* no delete or insert runs, and the store is unchanged.
C6_MalformedImportRejected ==
  [][(pc = "idle" /\ now' = now + 1 /\ req'.op = "importBackup"
        /\ ~(/\ ~IsJNull(req'.body)
             /\ "projects" \in DOMAIN req'.body
             /\ IsJArr(req'.body.projects)))
       => (db' = db /\ tx' = NoTx /\ pc' = "idle" /\ res'.status = 400)]_vars

\* A body without the projects key has been rejected on the deployment in use.
C6_Witness ==
  /\ Done("importBackup") /\ res.status = 400
  /\ ~IsJNull(req.body) /\ "projects" \notin DOMAIN req.body
  /\ db = SeedStore

\* The project of create request r and the children its body asks for are
\* all in the store.
CreatedAll(store, r) ==
  /\ r.projectId \in ProjectIds(store)
  /\ "initialAssignment" \in DOMAIN r.body =>
       \E a \in store.assignments :
         a.projectId = r.projectId /\ a.title = r.body.initialAssignment.title.str
  /\ "initialContacts" \in DOMAIN r.body =>
       Cardinality({c \in store.contacts : c.projectId = r.projectId})
         = Len(r.body.initialContacts)

\* C7: the steps of a create change the committed store only at the answer
\* 201, and then the project and all the children asked for are stored;
\* every other step, a failure included, leaves the store as it was.
C7_CreateAllOrNothing ==
  [][(req.op = "createProject" /\ pc # "idle") =>
       IF pc' = "idle" /\ res'.status = 201
         THEN CreatedAll(db', req)
         ELSE db' = db]_vars

\* A create with an assignment and contacts failed at the contacts insert,
\* after the project row was inserted: neither the project nor the
\* assignment is stored.
C7_Witness ==
  /\ Done("createProject") /\ res.status = 400
  /\ "failedAt" \in DOMAIN req /\ req.failedAt = "cp_contacts"
  /\ "initialAssignment" \in DOMAIN req.body
  /\ req.projectId # 0
  /\ req.projectId \notin ProjectIds(db)
  /\ \A a \in db.assignments : a.projectId # req.projectId

\* C8: the commit of a delete answered 204 removes the project, which
\* existed, and exactly the Assignment, Contact and ProjectFile rows of that
\* project; every other row stays.
C8_DeleteProjectCascades ==
  [][(req.op = "deleteProject" /\ pc = "commit" /\ res'.status = 204) =>
       /\ req.id \in ProjectIds(db)
       /\ db'.projects = {p \in db.projects : p.id # req.id}
       /\ \A t \in {"assignments", "contacts", "files"} :
            db'[t] = {r \in db[t] : r.projectId # req.id}]_vars

\* A project with assignments, contacts and a file has been deleted, and
\* another project is still stored.
C8_Witness ==
  /\ Done("deleteProject") /\ res.status = 204
  /\ req.removed.assignments # {} /\ req.removed.contacts # {} /\ req.removed.files # {}
  /\ db.projects # {}
  /\ \A t \in {"assignments", "contacts", "files"} :
       \A r \in db[t] : r.projectId # req.id

\* The nested array k of payload element p, empty when there is none.
Nested(p, k) == IF k \in DOMAIN p /\ IsJArr(p[k]) THEN p[k].arr ELSE <<>>

\* C9: the commit of an import answered 200 leaves one project per element
\* of the payload, each with the assignments and contacts nested in its
\* element, no file row, and no row with the id of a row stored before;
\* every row is newer than every row stored before.
C9_ImportReplacesStore ==
  [][(req.op = "importBackup" /\ pc = "commit" /\ res'.status = 200) =>
       LET els == req.body.projects.arr
       IN  /\ Cardinality(db'.projects) = Len(els)
           /\ Len(req.created) = Len(els)
           /\ db'.files = {}
           /\ \A t \in DOMAIN db : \A r \in db'[t] : \A o \in db[t] :
                r.id # o.id /\ r.createdAt > o.createdAt
           /\ \A i \in 1..Len(els) :
                /\ req.created[i] \in ProjectIds(db')
                /\ ProjectById(db', req.created[i]).name = els[i].name.str
                /\ Cardinality({a \in db'.assignments : a.projectId = req.created[i]})
                     = Len(Nested(els[i], "assignments"))
                /\ \A j \in 1..Len(Nested(els[i], "assignments")) :
                     \E a \in db'.assignments :
                       /\ a.projectId = req.created[i]
                       /\ a.title = Nested(els[i], "assignments")[j].title.str
                /\ Cardinality({c \in db'.contacts : c.projectId = req.created[i]})
                     = Len(Nested(els[i], "contacts"))
                /\ \A j \in 1..Len(Nested(els[i], "contacts")) :
                     \E c \in db'.contacts :
                       /\ c.projectId = req.created[i]
                       /\ c.name = Trim(Nested(els[i], "contacts")[j].name.str)]_vars

\* An import of two projects, the first with a nested files key, two
\* assignments and a contact, has replaced the deployment's rows, its file
\* row included.
C9_Witness ==
  /\ Done("importBackup") /\ res.status = 200
  /\ req.removed.projects # {} /\ req.removed.files # {}
  /\ Len(req.body.projects.arr) = 2
  /\ "files" \in DOMAIN req.body.projects.arr[1]
  /\ Cardinality(db.projects) = 2
  /\ Cardinality(db.assignments) = 2
  /\ Cardinality(db.contacts) = 1
  /\ db.files = {}

SummaryKeys == {"name", "developer", "listKind", "status", "scopeValue"}

\* C10: the commit of an import whose payload is the export of the store as
\* it is keeps the number of projects and, project by project in id order,
\* name, developer, listKind, status and scopeValue.
C10_ExportImportRoundTrip ==
  [][(/\ req.op = "importBackup" /\ pc = "commit" /\ res'.status = 200
      /\ "exportedAt" \in DOMAIN req.body
      /\ req.body = ExportPayload(db, req.body.exportedAt.date))
       => /\ Cardinality(db'.projects) = Cardinality(db.projects)
          /\ \A i \in 1..Cardinality(db.projects) : \A k \in SummaryKeys :
               OrderById(db'.projects)[i][k] = OrderById(db.projects)[i][k]]_vars

\* The export of the deployment in use has been imported back: its project
\* is stored under a new id with the same summary fields.
C10_Witness ==
  /\ Done("importBackup") /\ res.status = 200
  /\ "exportedAt" \in DOMAIN req.body
  /\ req.removed.projects = SeedStore.projects
  /\ \E p \in db.projects :
       /\ p.id # 1
       /\ p.name = <<"B">> /\ p.developer = Some(<<"D">>) /\ p.listKind = "SIGNED"
       /\ p.status = "ACTIVE" /\ p.scopeValue = Some(Scope1M)

\* A header that is a Bearer header whose token verifies.
BearerVerifies(h) ==
  /\ ~IsNull(h)
  /\ Len(Val(h)) >= 7
  /\ ToLowerCase(SubSeq(Val(h), 1, 7)) = <<"b", "e", "a", "r", "e", "r", " ">>
  /\ Trim(SubSeq(Val(h), 8, Len(Val(h)))) \in SignedTokens

\* C11: a request to a route behind requireAuth whose header is no Bearer
\* header, or whose token does not verify, is answered 401, no handler
\* begins, and store, sequences and objects stay as they were.
C11_UnauthorizedRejected ==
  [][(now' # now /\ ~BearerVerifies(auth')) =>
       /\ res' = [op |-> "requireAuth", status |-> 401]
       /\ req'.op = "requireAuth"
       /\ pc' = "idle"
       /\ db' = db /\ tx' = tx /\ seq' = seq /\ s3' = s3]_vars

\* A request with a token that does not verify was answered 401 on the
\* deployment in use.
C11_Witness ==
  /\ Done("requireAuth") /\ res.status = 401
  /\ auth = Some(<<"b", "e", "a", "r", "e", "r", " ", "x">>)
  /\ db = SeedStore

\* The ids of the projects a list response returned.
ListedIds == {res.body[i].id : i \in 1..Len(res.body)}

\* C12: a list answered for list = L, L a listKind, holds only projects
\* whose listKind is L, whatever the search.
C12_ListOnlyOfKind ==
  (Done("listProjects") /\ req.list \in ListKind) =>
    \A id \in ListedIds : \E p \in db.projects : p.id = id /\ p.listKind = req.list

\* A searched SIGNED list returned a project while a project of another
\* list is stored.
C12_Witness ==
  /\ Done("listProjects") /\ req.list = "SIGNED" /\ ~IsNull(req.search)
  /\ ListedIds # {}
  /\ \E p \in db.projects : p.listKind # "SIGNED"

\* q occurs in one of name, developer, scopeValue, letter case aside.
MatchesIgnoringCase(p, q) ==
  \/ Contains(ToLowerCase(p.name), ToLowerCase(q))
  \/ ~IsNull(p.developer) /\ Contains(ToLowerCase(Val(p.developer)), ToLowerCase(q))
  \/ ~IsNull(p.scopeValue) /\ Contains(ToLowerCase(Val(p.scopeValue)), ToLowerCase(q))

\* C13: a list answered for a search q holds a project of the list exactly
\* when q occurs in its name, developer or scopeValue, letter case aside.
C13_SearchIgnoresCase ==
  (Done("listProjects") /\ SearchText(req.search) # <<>>) =>
    \A p \in db.projects :
      p.listKind = listParam(req.list) =>
        (p.id \in ListedIds <=> MatchesIgnoringCase(p, SearchText(req.search)))

\* C14: a step that inserts file rows inserts them under a stored name
\* whose object is in storage before the step, and the step of an upload
\* whose put failed ends the request with an error and no row.
C14_ObjectBeforeRow ==
  [][/\ \A f \in db'.files \ db.files : f.storedName \in s3
     /\ (pc = "uf_s3" /\ req.storedName \notin s3') =>
          (db' = db /\ pc' = "idle" /\ res'.status = 500)]_vars

\* An upload was answered 201: its row is stored and its object is in
\* storage.
C14_Witness ==
  /\ Done("uploadFile") /\ res.status = 201
  /\ \E f \in db.files : f.storedName = req.storedName /\ f.createdAt = now
  /\ req.storedName \in s3

C16_OversizeUploadRejected ==
  (req.op = "uploadFile" /\ req.size > 10 * 1024 * 1024) =>
    /\ pc = "idle"
    /\ res.op = "uploadFile" /\ res.status >= 400
    /\ \A f \in db.files : f.createdAt # now

\* An upload of a file one byte over the limit to a stored project was
\* answered with an error.
C16_Witness ==
  /\ Done("uploadFile") /\ req.size = 10 * 1024 * 1024 + 1
  /\ req.id \in ProjectIds(db)
  /\ res.status = 500

\* C17: a patch with a valid body for an id that no project has is answered
\* 404.
C17_PatchUnknownIdNotFound ==
  (Done("patchProject") /\ updateProjectSchemaOk(req.body) /\ req.id \notin ProjectIds(db)) =>
    res.status = 404

\* C18: a create-contact request with a valid body for an id that no
\* project has stores no contact and is answered 404.
C18_ContactParentChecked ==
  (Done("createContact") /\ createContactSchemaOk(req.body) /\ req.id \notin ProjectIds(db)) =>
    /\ \A c \in db.contacts : c.projectId # req.id
    /\ res.status = 404

\* C19: a delete of an assignment or contact that is already gone, the
\* store being reachable, changes nothing and is answered 404, the answer
\* of no other failure of the delete.
C19_AlreadyGoneIsDistinct ==
  [][(/\ now' # now /\ req'.op \in {"deleteAssignment", "deleteContact"}
      /\ req'.dbok /\ req'.gone) =>
       (db' = db /\ res'.status = 404)]_vars

\* C20: every stored project's execution is null or an integer from 0 to
\* 100.
C20_ExecutionInRange ==
  \A p \in db.projects : IsNull(p.execution) \/ Val(p.execution) \in 0..100

\* A body whose scopeValue is a string without any digit and which carries
\* no remaining.
NoDigitScope(body) ==
  /\ "scopeValue" \in DOMAIN body /\ IsJStr(body.scopeValue)
  /\ ~HasDigit(body.scopeValue.str)
  /\ "remaining" \notin DOMAIN body

\* C21: a create whose scopeValue has no digit and which carries no
\* remaining stores the project with remaining unset, and a patch with such
\* a body leaves the stored remaining as it was.
C21_NonNumericScopeSkipsDerivation ==
  [][/\ (/\ req.op = "createProject" /\ pc # "idle"
         /\ pc' = "idle" /\ res'.status = 201
         /\ NoDigitScope(req.body))
          => IsNull(ProjectById(db', req.projectId).remaining)
     /\ (PatchStep /\ NoDigitScope(req'.body))
          => ProjectById(db', req'.id).remaining = ProjectById(db, req'.id).remaining]_vars

\* A create or patch that succeeded and whose body carries a string remaining.
C22Case(op) ==
  /\ Done(op) /\ res.status \in {200, 201}
  /\ "remaining" \in DOMAIN req.body /\ IsJStr(req.body.remaining)

\* C22: after a create or a patch that carries a remaining, the stored
\* remaining is the text the request carried, whatever scopeValue and
\* execution came with it.
C22_ExplicitRemainingKept ==
  /\ C22Case("createProject") =>
       ProjectById(db, req.projectId).remaining = Some(req.body.remaining.str)
  /\ C22Case("patchProject") =>
       ProjectById(db, req.id).remaining = Some(req.body.remaining.str)

\* A patch of scopeValue "15", execution 50 and remaining "9" has been
\* applied: the stored remaining is "9", not the derived "8".
C22_Witness ==
  /\ C22Case("patchProject")
  /\ PatchDerives([k \in DOMAIN req.body \ {"remaining"} |-> req.body[k]])
  /\ ProjectById(db, req.id).remaining = Some(<<"9">>)
  /\ DerivedRemaining(req.body.scopeValue.str, CoerceNumber(req.body.execution).v)
       # <<"9">>

\* The body carries an execution that is no number, or a number outside
\* [0,100].
BadExecution(body) ==
  /\ "execution" \in DOMAIN body /\ ~IsJNull(body.execution)
  /\ \/ ~CoerceNumber(body.execution).ok
     \/ CoerceNumber(body.execution).v \notin 0..100

\* C25: a create or patch whose execution is not a number in [0,100] is
\* answered 400 and writes nothing: no project row was created or updated by
\* the request.
C25_BadExecutionRejected ==
  \A op \in {"createProject", "patchProject"} :
    (Done(op) /\ BadExecution(req.body)) =>
      /\ res.status = 400
      /\ \A p \in db.projects : p.createdAt # now /\ p.updatedAt # now

\* A patch of execution 150 addressed to a stored project was answered 400
\* and the project's execution is in range as before.
C25_Witness ==
  /\ Done("patchProject") /\ res.status = 400
  /\ "execution" \in DOMAIN req.body /\ req.body.execution = JNum(150)
  /\ req.id \in ProjectIds(db)
  /\ ProjectById(db, req.id).execution \in {Some(n) : n \in 0..100}

\* C27: every stored contact has a non-empty name and a phone of at least 3
\* characters.
C27_ContactFieldsEnforced ==
  \A c \in db.contacts : Len(c.name) >= 1 /\ Len(c.phone) >= 3

\* C30: at every state every file row has its object in storage under its
\* stored name.
C30_RowHasObject ==
  \A f \in db.files : f.storedName \in s3

\* The ids of the projects the second client's read shows.
ShownIds(p) ==
  CASE p.op = "listProjects" -> {p.body[i].id : i \in 1..Len(p.body)}
    [] p.op = "getProject" -> IF p.status = 200 THEN {p.body.project.id} ELSE {}
    [] p.op = "exportBackup" ->
         {p.body.projects.arr[i].id.num : i \in 1..Len(p.body.projects.arr)}

\* How many assignments the read shows under project id: the list shows the
\* last one only.
ShownTasks(p, id) ==
  CASE p.op = "listProjects" ->
         LET i == CHOOSE i \in 1..Len(p.body) : p.body[i].id = id
         IN  IF IsNull(p.body[i].lastTaskTitle) THEN 0 ELSE 1
    [] p.op = "getProject" -> Cardinality(p.body.assignments)
    [] p.op = "exportBackup" ->
         LET i == CHOOSE i \in 1..Len(p.body.projects.arr) :
                    p.body.projects.arr[i].id.num = id
         IN  Len(p.body.projects.arr[i].assignments.arr)

\* How many contacts the read shows under project id; the list shows none.
ShownContacts(p, id) ==
  CASE p.op = "getProject" -> Cardinality(p.body.contacts)
    [] p.op = "exportBackup" ->
         LET i == CHOOSE i \in 1..Len(p.body.projects.arr) :
                    p.body.projects.arr[i].id.num = id
         IN  Len(p.body.projects.arr[i].contacts.arr)

\* The projects of a store that the read asks for.
AskedIds(p, store) ==
  CASE p.op = "listProjects" ->
         {q.id : q \in {q \in store.projects :
                          Where(q, listParam(p.query.list), SearchText(p.query.search))}}
    [] p.op = "getProject" ->
         IF \A i \in 1..Len(p.param) : p.param[i] \in Digits
           THEN {NumberOfDigits(p.param)} \cap ProjectIds(store) ELSE {}
    [] p.op = "exportBackup" -> ProjectIds(store)

\* The read shows the projects it asks for as the store has them: each one
\* of them and no other, each with its assignments and contacts.
ShowsWhole(p, store) ==
  /\ ShownIds(p) = AskedIds(p, store)
  /\ \A id \in ShownIds(p) :
       LET tasks == Cardinality({a \in store.assignments : a.projectId = id})
           contacts == Cardinality({c \in store.contacts : c.projectId = id})
       IN  /\ ShownTasks(p, id) >= IF p.op = "listProjects" THEN Min(tasks, 1) ELSE tasks
           /\ p.op # "listProjects" => ShownContacts(p, id) >= contacts

C24_LastTaskFromLatest ==
  peer.op = "listProjects" =>
    \A i \in 1..Len(peer.body) :
      LET item == peer.body[i]
          as == {a \in db.assignments : a.projectId = item.id}
      IN  IF as = {}
            THEN /\ IsNull(item.lastTaskTitle) /\ IsNull(item.lastHandlerName)
                 /\ IsNull(item.lastTaskDate)
            ELSE \E a \in as :
                   /\ \A o \in as : o.createdAt <= a.createdAt
                   /\ item.lastTaskTitle = Some(a.title)
                   /\ item.lastHandlerName = a.assigneeName
                   /\ item.lastTaskDate =
                        IF IsNull(a.dueDate) THEN Some(a.createdAt) ELSE a.dueDate

\* The seeded project has the assignment of time 0 and a later one, "U",
\* due on day 5; the list shows "U" and day 5.
C24_Witness ==
  /\ peer.op = "listProjects"
  /\ \E a, b \in db.assignments :
       a.projectId = 1 /\ b.projectId = 1 /\ a.createdAt < b.createdAt
  /\ \E i \in 1..Len(peer.body) :
       /\ peer.body[i].id = 1
       /\ peer.body[i].lastTaskTitle = Some(<<"U">>)
       /\ peer.body[i].lastTaskDate = Some(5)

\* C26: project detail answers 400 to an id that is not a numeral, without
\* asking the store, and 404 to a numeral that is the id of no project.
C26_MalformedIsNotMissing ==
  peer.op = "getProject" =>
    LET numeral == \A i \in 1..Len(peer.param) : peer.param[i] \in Digits
    IN  /\ ~numeral => peer.status = 400 /\ ~peer.lookup
        /\ (numeral /\ NumberOfDigits(peer.param) \notin ProjectIds(db)) =>
             peer.status = 404 /\ peer.lookup
        /\ (numeral /\ NumberOfDigits(peer.param) \in ProjectIds(db)) =>
             peer.status = 200

\* The id "1x", which begins like the id of the seeded project, was answered
\* 400 while project 1 is stored.
C26_Witness ==
  /\ peer.op = "getProject" /\ peer.param = <<"1", "x">>
  /\ peer.status = 400
  /\ 1 \in ProjectIds(db)

\* C28: no two file rows have the same stored name.
C28_StoredNameUnique ==
  \A f, g \in db.files : f.storedName = g.storedName => f = g

\* Two uploads took the same name: the second client's row is stored, the
\* object is there, and the first client's insert was refused.
C28_Witness ==
  /\ Done("uploadFile") /\ res.status = 500
  /\ req.id \in ProjectIds(db)
  /\ req.storedName \in s3
  /\ \E f \in db.files : f.storedName = req.storedName

\* C29: every assignment, contact and file row references a stored project.
C29_NoOrphanRows ==
  \A t \in {"assignments", "contacts", "files"} :
    \A r \in db[t] : r.projectId \in ProjectIds(db)

\* The second client created an assignment for a project while the first
\* client's deleteProject had removed the project's assignments and not yet
\* the project.
C29_Witness ==
  /\ peer.op = "createAssignment" /\ peer.status = 201 /\ peer.pc = "dp_project"
  /\ req.op = "deleteProject" /\ req.id = peer.id
  /\ \E a \in db.assignments : a.projectId = peer.id

====
